---- MODULE Spec2Model ----
(***************************************************************************)
(* GPIOMonitor of rpi_simple_debugger/gpio_monitor.py: a polling thread    *)
(* that reads the configured pins, caches their values and hands a         *)
(* complete snapshot to a callback, with start(), stop() and               *)
(* get_all_states() called from other threads.  A step is one access to    *)
(* shared state (the thread handle, the stop event, the cache, the GPIO    *)
(* library) together with the thread-local statements around it; threads   *)
(* interleave between steps.                                               *)
(***************************************************************************)
EXTENDS Integers, Sequences, FiniteSets, TLC

\* ------------------------------------------------------------------ bounds
\* public calls begun in a run, and passes of the pins begun in a run
MaxCalls == 3
MaxTicks == 2

\* ----------------------------------------------------------- configuration
\* the contexts that call the monitor: c1 makes call after call, of every kind;
\* c2 is a second context that makes one start() or stop() at any moment
Callers == {"c1", "c2"}
Getters == {"c1"}
OneCall == {"c2"}
\* a start() creates at most one thread
Threads == 1..MaxCalls
None == "None"
EmptyMap == [p \in {} |-> None]
\* what GPIO.input hands back: a well-behaved library returns 0, 1 or a bool,
\* another capability may return any int
BitValues == {<<"int", 0>>, <<"int", 1>>, <<"bool", "True">>, <<"bool", "False">>}
WideValues == BitValues \cup {<<"int", 2>>}
\* the constructor arguments (pins, label_map) and the hardware they run on
Configs ==
    { [pins |-> <<>>, label_map |-> EmptyMap, raws |-> WideValues],
      [pins |-> <<17>>, label_map |-> EmptyMap, raws |-> WideValues],
      [pins |-> <<27, 17>>, label_map |-> 17 :> "button", raws |-> BitValues] }

VARIABLES
    hw,           \* GPIO is not None
    pins,         \* self._pins
    label_map,    \* self._label_map
    raws,         \* the raw values GPIO.input can return on this hardware
    thread,       \* self._thread: 0 is None, else a thread id
    stop,         \* self._stop (threading.Event)
    last_values,  \* self._last_values
    gpioMode,     \* GPIO.setmode has been called since the last cleanup
    gpioSetup,    \* pins set up as inputs since the last cleanup
    tpc,          \* per thread: position in _loop
    ti,           \* per thread: index of the for loop it is in
    tacc,         \* per thread: `states` of its get_all_states call
    tpass,        \* per thread: the values it read in its current pass
    cpc,          \* per caller: position in start/stop/get_all_states, or how its last call ended
    ci,           \* per caller: index of the for loop it is in
    cacc,         \* per caller: `states` of its get_all_states call
    nticks,       \* number of passes begun so far
    ncalls,       \* number of public calls begun so far
    lastTick,     \* the values of the most recent completed pass
    cseen,        \* per caller: the completed-pass values current during its get_all_states call
    cquiet,       \* per caller: no pass has been in progress during its get_all_states call
    cstop,        \* per caller in stop(): what the sampler was when the call began
    tlate,        \* per thread: it has entered the callback with the stop event set
    csetup,       \* per caller in start(): what it has initialised in this call
    tsetup        \* per thread: what the start() that created it had initialised

vars == <<hw, pins, label_map, raws, thread, stop, last_values, gpioMode, gpioSetup,
          tpc, ti, tacc, tpass, cpc, ci, cacc, nticks, ncalls, lastTick, cseen, cquiet, cstop,
          tlate, csetup, tsetup>>

config == <<hw, pins, label_map, raws>>
hardware == <<gpioMode, gpioSetup>>
tlocals == <<tpc, ti, tacc, tpass>>
cresult == <<ci, cacc, cseen, cquiet>>
ghosts == <<nticks, ncalls, lastTick, cstop>>

\* ---------------------------------------------------------------- helpers
\* nothing initialised: no GPIO.setmode, no GPIO.setup
NoSetup == [mode |-> FALSE, pins |-> {}]

PinSet == {pins[k] : k \in DOMAIN pins}

\* int(value), line 111
IntOf(raw) ==
    IF raw[1] = "bool" THEN (IF raw[2] = "True" THEN 1 ELSE 0) ELSE raw[2]

\* dict.get(pin, 0) on a cache
GetOr0(d, pin) == IF pin \in DOMAIN d THEN d[pin] ELSE 0

\* self._last_values.get(pin, 0), line 96
CachedValueDefault1(pin) == IF pin \in DOMAIN last_values THEN last_values[pin] ELSE 1
CachedValue(pin) == GetOr0(last_values, pin)

\* self._label_map.get(pin), line 101
LabelOf(pin) == IF pin \in DOMAIN label_map THEN label_map[pin] ELSE None

\* GPIOState(pin=, value=, label=), lines 98-102
GPIOState(pin, value, label) == [pin |-> pin, value |-> value, label |-> label]

\* d[pin] = v on a dict
DictSet(d, pin, v) == [p \in DOMAIN d \cup {pin} |-> IF p = pin THEN v ELSE d[p]]

\* one iteration of the for loop of get_all_states, lines 95-103
GasAppendSkipUnread(acc, pin) ==
    IF pin \in DOMAIN last_values
    THEN Append(acc, GPIOState(pin, last_values[pin], LabelOf(pin)))
    ELSE acc
GasAppend(acc, pin) == Append(acc, GPIOState(pin, CachedValue(pin), LabelOf(pin)))

\* AllGPIOStates(states).pins: a dict keyed by pin, later entries overwrite
AllGPIOStates(states) ==
    [p \in {states[k].pin : k \in DOMAIN states} |->
        LET last == CHOOSE k \in DOMAIN states :
                      /\ states[k].pin = p
                      /\ \A j \in DOMAIN states : states[j].pin = p => j <= k
        IN  [pin |-> states[last].pin, value |-> states[last].value,
             label |-> states[last].label]]

\* Thread.is_alive(): started and run() not finished
AlivePcs == {"test", "read", "gas", "callback", "sleep"}
IsAlive(t) == tpc[t] \in AlivePcs
LiveThreads == {t \in Threads : IsAlive(t)}
NewThread == CHOOSE t \in Threads : tpc[t] = "none" /\ \A u \in Threads : tpc[u] = "none" => t <= u

\* where a caller is between two calls: before its first call, or where its
\* last call returned (the return of line 68, 71, 79, 86 or 104) or raised
RestPcs == {"idle", "ret68", "ret71", "ret79", "ret86", "ret104", "raised"}

\* what the sampler is for a stop() that caller c begins: "idle" when no other
\* call is in progress, no loop is alive, and it was never started or a stop()
\* has been called since the last start(); "stopped" when a stop() has been
\* called since the last start() but a loop is still alive; "no" otherwise
SamplerAt(c) ==
    IF (\E d \in Callers \ {c} : cpc[d] \notin RestPcs) \/ ~(thread = 0 \/ stop)
    THEN "no"
    ELSE IF LiveThreads = {} THEN "idle" ELSE "stopped"

\* a caller begins a call: the list its last get_all_states returned is dropped
BeginCall(c) ==
    /\ cpc[c] \in RestPcs
    /\ c \in OneCall => cpc[c] = "idle"
    /\ ncalls < MaxCalls
    /\ ncalls' = ncalls + 1
    /\ ci' = [ci EXCEPT ![c] = 0]
    /\ cacc' = [cacc EXCEPT ![c] = <<>>]

\* the list get_all_states would build from the cache d
StatesOf(d) == [k \in DOMAIN pins |-> GPIOState(pins[k], GetOr0(d, pins[k]), LabelOf(pins[k]))]

Init ==
    /\ hw \in BOOLEAN
    /\ \E cfg \in Configs :
         /\ pins = cfg.pins
         /\ label_map = cfg.label_map
         /\ raws = cfg.raws
    /\ thread = 0
    /\ stop = FALSE
    /\ last_values = EmptyMap
    /\ gpioMode = FALSE
    /\ gpioSetup = {}
    /\ tpc = [t \in Threads |-> "none"]
    /\ ti = [t \in Threads |-> 0]
    /\ tacc = [t \in Threads |-> <<>>]
    /\ tpass = [t \in Threads |-> EmptyMap]
    /\ cpc = [c \in Callers |-> "idle"]
    /\ ci = [c \in Callers |-> 0]
    /\ cacc = [c \in Callers |-> <<>>]
    /\ nticks = 0
    /\ ncalls = 0
    /\ lastTick = EmptyMap
    /\ cseen = [c \in Callers |-> {}]
    /\ cquiet = [c \in Callers |-> FALSE]
    /\ cstop = [c \in Callers |-> "no"]
    /\ tlate = [t \in Threads |-> FALSE]
    /\ csetup = [c \in Callers |-> NoSetup]
    /\ tsetup = [t \in Threads |-> NoSetup]

\* ------------------------------------------------------------------ start()
\* lines 65-68: start() is entered; if GPIO is None: return
Start66NoReturn(c) ==
    /\ BeginCall(c)
    /\ cpc' = [cpc EXCEPT ![c] = IF hw THEN "start70" ELSE "start77"]
    /\ cstop' = [d \in Callers |-> "no"]
    /\ UNCHANGED <<config, csetup, tsetup, tlate, thread, stop, last_values, hardware, tlocals, nticks, lastTick,
                   cseen, cquiet>>
Start66(c) ==
    /\ BeginCall(c)
    /\ cpc' = [cpc EXCEPT ![c] = IF hw THEN "start70" ELSE "ret68"]
    /\ cstop' = [d \in Callers |-> IF hw \/ d = c THEN "no" ELSE cstop[d]]
    /\ UNCHANGED <<config, csetup, tsetup, tlate, thread, stop, last_values, hardware, tlocals, nticks, lastTick,
                   cseen, cquiet>>

\* lines 70-71: if self._thread and self._thread.is_alive(): return
Start70NoCheck(c) ==
    /\ cpc[c] = "start70"
    /\ cpc' = [cpc EXCEPT ![c] = "start73"]
    /\ UNCHANGED <<config, csetup, tsetup, tlate, thread, stop, last_values, hardware, tlocals, cresult, ghosts>>
Start70(c) ==
    /\ cpc[c] = "start70"
    /\ cpc' = [cpc EXCEPT ![c] = IF thread # 0 /\ IsAlive(thread) THEN "ret71" ELSE "start73"]
    /\ UNCHANGED <<config, csetup, tsetup, tlate, thread, stop, last_values, hardware, tlocals, cresult, ghosts>>

\* lines 73-75: GPIO.setmode(GPIO.BCM); for pin in self._pins: GPIO.setup(pin, GPIO.IN)
Start73ModeOnly(c) ==
    /\ cpc[c] = "start73"
    /\ IF hw
       THEN /\ gpioMode' = TRUE
            /\ gpioSetup' = gpioSetup
            /\ csetup' = [csetup EXCEPT ![c] = [mode |-> TRUE, pins |-> {}]]
            /\ cpc' = [cpc EXCEPT ![c] = "start77"]
       ELSE \* None.setmode: AttributeError
            /\ UNCHANGED <<hardware, csetup>>
            /\ cpc' = [cpc EXCEPT ![c] = "raised"]
    /\ UNCHANGED <<config, tsetup, tlate, thread, stop, last_values, tlocals, cresult, ghosts>>
Start73(c) ==
    /\ cpc[c] = "start73"
    /\ IF hw
       THEN /\ gpioMode' = TRUE
            /\ gpioSetup' = gpioSetup \cup PinSet
            /\ csetup' = [csetup EXCEPT ![c] = [mode |-> TRUE, pins |-> PinSet]]
            /\ cpc' = [cpc EXCEPT ![c] = "start77"]
       ELSE \* None.setmode: AttributeError
            /\ UNCHANGED <<hardware, csetup>>
            /\ cpc' = [cpc EXCEPT ![c] = "raised"]
    /\ UNCHANGED <<config, tsetup, tlate, thread, stop, last_values, tlocals, cresult, ghosts>>

\* line 77: self._stop.clear()
Start77(c) ==
    /\ cpc[c] = "start77"
    /\ stop' = FALSE
    /\ tlate' = [t \in Threads |-> FALSE]
    /\ cpc' = [cpc EXCEPT ![c] = "start78"]
    /\ UNCHANGED <<config, csetup, tsetup, thread, last_values, hardware, tlocals, cresult, ghosts>>

\* line 78: self._thread = threading.Thread(target=self._loop, daemon=True)
Start78(c) ==
    /\ cpc[c] = "start78"
    /\ thread' = NewThread
    /\ tpc' = [tpc EXCEPT ![NewThread] = "created"]
    /\ tsetup' = [tsetup EXCEPT ![NewThread] = csetup[c]]
    /\ cpc' = [cpc EXCEPT ![c] = "start79"]
    /\ UNCHANGED <<config, csetup, tlate, stop, last_values, hardware, ti, tacc, tpass, cresult, ghosts>>

\* line 79: self._thread.start(); a thread can only be started once
Start79(c) ==
    /\ cpc[c] = "start79"
    /\ IF tpc[thread] = "created"
       THEN /\ tpc' = [tpc EXCEPT ![thread] = "test"]
            /\ cpc' = [cpc EXCEPT ![c] = "ret79"]
       ELSE /\ tpc' = tpc
            /\ cpc' = [cpc EXCEPT ![c] = "raised"]
    /\ csetup' = [csetup EXCEPT ![c] = NoSetup]
    /\ UNCHANGED <<config, tsetup, tlate, thread, stop, last_values, hardware, ti, tacc, tpass, cresult, ghosts>>

\* ------------------------------------------------------------------- stop()
\* lines 81-82: stop() is entered; self._stop.set()
Stop82(c) ==
    /\ BeginCall(c)
    /\ stop' = TRUE
    /\ cpc' = [cpc EXCEPT ![c] = "stop83"]
    /\ cstop' = [cstop EXCEPT ![c] = SamplerAt(c)]
    /\ UNCHANGED <<config, csetup, tsetup, tlate, thread, last_values, hardware, tlocals, nticks, lastTick,
                   cseen, cquiet>>

\* line 83: if self._thread and self._thread.is_alive():
Stop83NoNoneGuard(c) ==
    /\ cpc[c] = "stop83"
    /\ cpc' = [cpc EXCEPT ![c] = IF thread = 0 THEN "raised"
                                 ELSE IF IsAlive(thread) THEN "stop84" ELSE "stop85"]
    /\ UNCHANGED <<config, csetup, tsetup, tlate, thread, stop, last_values, hardware, tlocals, cresult, ghosts>>
Stop83(c) ==
    /\ cpc[c] = "stop83"
    /\ cpc' = [cpc EXCEPT ![c] = IF thread # 0 /\ IsAlive(thread) THEN "stop84" ELSE "stop85"]
    /\ UNCHANGED <<config, csetup, tsetup, tlate, thread, stop, last_values, hardware, tlocals, cresult, ghosts>>

\* line 84: self._thread.join(timeout=1): joining a thread that was not started
\* raises RuntimeError; otherwise join returns, because the thread has ended or
\* because the timeout has elapsed
Stop84(c) ==
    /\ cpc[c] = "stop84"
    /\ cpc' = [cpc EXCEPT ![c] = IF tpc[thread] = "created" THEN "raised" ELSE "stop85"]
    /\ UNCHANGED <<config, csetup, tsetup, tlate, thread, stop, last_values, hardware, tlocals, cresult, ghosts>>

\* lines 85-86: if GPIO is not None: GPIO.cleanup()
Stop85(c) ==
    /\ cpc[c] = "stop85"
    /\ IF hw
       THEN gpioMode' = FALSE /\ gpioSetup' = {}
       ELSE UNCHANGED hardware
    /\ cpc' = [cpc EXCEPT ![c] = "ret86"]
    /\ UNCHANGED <<config, csetup, tsetup, tlate, thread, stop, last_values, tlocals, cresult, ghosts>>

\* --------------------------------------------------------- get_all_states()
\* line 94: get_all_states() is entered; states = []
Get94(c) ==
    /\ BeginCall(c)
    /\ cpc' = [cpc EXCEPT ![c] = "gas95"]
    /\ cseen' = [cseen EXCEPT ![c] = {lastTick}]
    /\ cquiet' = [cquiet EXCEPT ![c] = \A t \in Threads : tpc[t] # "read"]
    /\ cstop' = [cstop EXCEPT ![c] = "no"]
    /\ UNCHANGED <<config, csetup, tsetup, tlate, thread, stop, last_values, hardware, tlocals, nticks, lastTick>>

\* line 104: return states; the caller keeps the list until its next call
GetReturn(c) ==
    /\ cpc' = [cpc EXCEPT ![c] = "ret104"]
    /\ ci' = [ci EXCEPT ![c] = 0]
    /\ cseen' = [cseen EXCEPT ![c] = {}]
    /\ cquiet' = [cquiet EXCEPT ![c] = FALSE]

\* lines 95-103, one iteration; line 104 when the list is exhausted
Get95SetDefault(c) ==
    /\ cpc[c] = "gas95"
    /\ IF ci[c] < Len(pins)
       THEN /\ cacc' = [cacc EXCEPT ![c] = GasAppend(cacc[c], pins[ci[c] + 1])]
            /\ last_values' = DictSet(last_values, pins[ci[c] + 1], CachedValue(pins[ci[c] + 1]))
            /\ IF ci[c] + 1 = Len(pins)
               THEN GetReturn(c)
               ELSE /\ ci' = [ci EXCEPT ![c] = ci[c] + 1]
                    /\ UNCHANGED <<cpc, cseen, cquiet>>
       ELSE /\ GetReturn(c)
            /\ cacc' = cacc
            /\ last_values' = last_values
    /\ UNCHANGED <<config, csetup, tsetup, tlate, thread, stop, hardware, tlocals, ghosts>>
Get95(c) ==
    /\ cpc[c] = "gas95"
    /\ IF ci[c] < Len(pins)
       THEN /\ cacc' = [cacc EXCEPT ![c] = GasAppend(cacc[c], pins[ci[c] + 1])]
            /\ IF ci[c] + 1 = Len(pins)
               THEN GetReturn(c)
               ELSE /\ ci' = [ci EXCEPT ![c] = ci[c] + 1]
                    /\ UNCHANGED <<cpc, cseen, cquiet>>
       ELSE /\ GetReturn(c)
            /\ cacc' = cacc
    /\ UNCHANGED <<config, csetup, tsetup, tlate, thread, stop, last_values, hardware, tlocals, ghosts>>

\* -------------------------------------------------------------------- _loop
\* line 107: while not self._stop.is_set(), on entry or when the sleep of line 117 is over
LoopTestOnEntryOnly(t) ==
    /\ tpc[t] \in {"test", "sleep"}
    /\ IF stop /\ tpc[t] = "test"
       THEN /\ tpc' = [tpc EXCEPT ![t] = "exited"]
            /\ tlate' = [tlate EXCEPT ![t] = FALSE]
            /\ UNCHANGED <<ti, tpass, nticks, cquiet>>
       ELSE /\ nticks < MaxTicks
            /\ tpc' = [tpc EXCEPT ![t] = "read"]
            /\ ti' = [ti EXCEPT ![t] = 0]
            /\ tpass' = [tpass EXCEPT ![t] = EmptyMap]
            /\ nticks' = nticks + 1
            /\ cquiet' = [c \in Callers |-> FALSE]
            /\ tlate' = tlate
    /\ UNCHANGED <<config, csetup, tsetup, thread, stop, last_values, hardware, tacc, cpc, ci, cacc,
                   ncalls, lastTick, cseen, cstop>>
LoopTest(t) ==
    /\ tpc[t] \in {"test", "sleep"}
    /\ IF stop
       THEN /\ tpc' = [tpc EXCEPT ![t] = "exited"]
            /\ tlate' = [tlate EXCEPT ![t] = FALSE]
            /\ UNCHANGED <<ti, tpass, nticks, cquiet>>
       ELSE /\ nticks < MaxTicks
            /\ tpc' = [tpc EXCEPT ![t] = "read"]
            /\ ti' = [ti EXCEPT ![t] = 0]
            /\ tpass' = [tpass EXCEPT ![t] = EmptyMap]
            /\ nticks' = nticks + 1
            /\ cquiet' = [c \in Callers |-> FALSE]
            /\ tlate' = tlate
    /\ UNCHANGED <<config, csetup, tsetup, thread, stop, last_values, hardware, tacc, cpc, ci, cacc,
                   ncalls, lastTick, cseen, cstop>>

\* the value the loop gets for a pin, line 110
ReadValues == IF hw THEN {IntOf(r) : r \in raws} ELSE {0}

\* the pass of thread t has read every pin, with values p: on to line 114
PassDone(t, p) ==
    /\ tpc' = [tpc EXCEPT ![t] = "gas"]
    /\ ti' = [ti EXCEPT ![t] = 0]
    /\ lastTick' = p
    /\ cseen' = [c \in Callers |-> IF cpc[c] = "gas95" THEN cseen[c] \cup {p} ELSE cseen[c]]

\* lines 109-111: value = GPIO.input(pin) ...; self._last_values[pin] = int(value)
LoopRead(t) ==
    /\ tpc[t] = "read"
    /\ IF ti[t] < Len(pins)
       THEN \E v \in ReadValues :
              /\ last_values' = DictSet(last_values, pins[ti[t] + 1], v)
              /\ tpass' = [tpass EXCEPT ![t] = DictSet(tpass[t], pins[ti[t] + 1], v)]
              /\ IF ti[t] + 1 = Len(pins)
                 THEN PassDone(t, tpass'[t])
                 ELSE /\ ti' = [ti EXCEPT ![t] = ti[t] + 1]
                      /\ UNCHANGED <<tpc, lastTick, cseen>>
       ELSE /\ PassDone(t, tpass[t])
            /\ UNCHANGED <<last_values, tpass>>
    /\ UNCHANGED <<config, csetup, tsetup, tlate, thread, stop, hardware, tacc, cpc, ci, cacc, nticks, ncalls,
                   cquiet, cstop>>

\* line 110: GPIO.input(pin) raises; nothing in _loop catches it
LoopReadRaise(t) ==
    /\ tpc[t] = "read"
    /\ ti[t] < Len(pins)
    /\ hw
    /\ tpc' = [tpc EXCEPT ![t] = "crashed"]
    /\ ti' = [ti EXCEPT ![t] = 0]
    /\ tpass' = [tpass EXCEPT ![t] = EmptyMap]
    /\ UNCHANGED <<config, csetup, tsetup, tlate, thread, stop, last_values, hardware, tacc, cpc, cresult, ghosts>>

\* line 115: self._on_update(AllGPIOStates(all_states)) is entered
EnterCallback(t) ==
    /\ tpc' = [tpc EXCEPT ![t] = "callback"]
    /\ ti' = [ti EXCEPT ![t] = 0]
    /\ tlate' = [tlate EXCEPT ![t] = stop]

\* line 114: all_states = self.get_all_states(), one iteration of its loop
LoopGet(t) ==
    /\ tpc[t] = "gas"
    /\ IF ti[t] < Len(pins)
       THEN /\ tacc' = [tacc EXCEPT ![t] = GasAppend(tacc[t], pins[ti[t] + 1])]
            /\ IF ti[t] + 1 = Len(pins)
               THEN EnterCallback(t)
               ELSE /\ ti' = [ti EXCEPT ![t] = ti[t] + 1]
                    /\ UNCHANGED <<tpc, tlate>>
       ELSE /\ EnterCallback(t)
            /\ tacc' = tacc
    /\ UNCHANGED <<config, csetup, tsetup, thread, stop, last_values, hardware, tpass, cpc, cresult, ghosts>>

\* line 115: the callback returns; line 117: time.sleep(self._interval_s)
LoopCallbackReturn(t) ==
    /\ tpc[t] = "callback"
    /\ tpc' = [tpc EXCEPT ![t] = "sleep"]
    /\ tacc' = [tacc EXCEPT ![t] = <<>>]
    /\ tpass' = [tpass EXCEPT ![t] = EmptyMap]
    /\ UNCHANGED <<config, csetup, tsetup, tlate, thread, stop, last_values, hardware, ti, cpc, cresult, ghosts>>

\* the snapshot a thread in the callback has passed to it
Snapshot(t) == AllGPIOStates(tacc[t])

Next ==
    \/ \E c \in Callers : Start66(c)
    \/ \E c \in Callers : Start70(c)
    \/ \E c \in Callers : Start73(c)
    \/ \E c \in Callers : Start77(c)
    \/ \E c \in Callers : Start78(c)
    \/ \E c \in Callers : Start79(c)
    \/ \E c \in Callers : Stop82(c)
    \/ \E c \in Callers : Stop83(c)
    \/ \E c \in Callers : Stop84(c)
    \/ \E c \in Callers : Stop85(c)
    \/ \E c \in Getters : Get94(c)
    \/ \E c \in Callers : Get95(c)
    \/ \E t \in Threads : LoopTest(t)
    \/ \E t \in Threads : LoopRead(t)
    \/ \E t \in Threads : LoopReadRaise(t)
    \/ \E t \in Threads : LoopGet(t)
    \/ \E t \in Threads : LoopCallbackReturn(t)

Spec == Init /\ [][Next]_vars

\* the loop runs whenever it can: a runnable thread is scheduled, a callback
\* that returns and a sleep that elapses let it go on
FairSpec == Spec /\ \A t \in Threads :
    WF_vars(LoopTest(t) \/ LoopRead(t) \/ LoopGet(t) \/ LoopCallbackReturn(t))

\* ------------------------------------------------------------------ claims
\* the pins of a list of GPIOState
PinsOf(states) == {states[k].pin : k \in DOMAIN states}
InCallback == {t \in Threads : tpc[t] = "callback"}
Returned == {c \in Callers : cpc[c] = "ret104"}
\* c2 has not called start(): every start() so far is c1's
OneStarter == cpc["c2"] \in {"idle", "stop83", "stop84", "stop85", "ret86"}

\* C1: the pins of every snapshot passed to the callback, and of every list
\* get_all_states returns, are exactly the configured pins.
C1_Completeness ==
    /\ \A t \in InCallback :
         /\ DOMAIN Snapshot(t) = PinSet
         /\ \A p \in PinSet : Snapshot(t)[p].pin = p
    /\ \A c \in Returned : PinsOf(cacc[c]) = PinSet
C1_Witness ==
    /\ hw /\ Len(pins) = 2
    /\ InCallback # {}
    /\ \E c \in Returned : Len(cacc[c]) = 2

\* C2: without GPIO no call raises, no thread is ever created, the callback is
\* never entered, and get_all_states returns every configured pin, in order,
\* with value 0 and its label of label_map (None without one).
C2_Degraded ==
    ~hw =>
      /\ \A c \in Callers : cpc[c] # "raised"
      /\ \A t \in Threads : tpc[t] = "none"
      /\ thread = 0
      /\ \A c \in Returned :
           cacc[c] = [k \in DOMAIN pins |->
                        [pin |-> pins[k], value |-> 0,
                         label |-> IF pins[k] \in DOMAIN label_map
                                   THEN label_map[pins[k]] ELSE None]]
C2_Witness ==
    /\ ~hw /\ Len(pins) = 2
    /\ cpc["c2"] = "ret68"
    /\ stop
    /\ cpc["c1"] = "ret104"

\* C3: a start() that finds the loop running returns at line 71 and changes
\* nothing: no thread is created, the handle, the stop event and the set of
\* live loops stay as they are; and as long as every start() comes from one
\* caller there is never more than one live loop.
C3_IdempotentStart ==
    [][ /\ OneStarter' => Cardinality(LiveThreads') <= 1
        /\ \A c \in Callers :
             (hw /\ cpc[c] = "start70" /\ cpc'[c] # "start70" /\ thread # 0 /\ IsAlive(thread))
             => /\ cpc'[c] = "ret71"
                /\ tpc' = tpc /\ thread' = thread /\ stop' = stop
                /\ LiveThreads' = LiveThreads ]_vars
C3_Witness ==
    /\ hw
    /\ ncalls = 2 /\ cpc["c2"] = "idle"
    /\ cpc["c1"] = "ret71"
    /\ Cardinality(LiveThreads) = 1

C5_TickAtomicity ==
    \A t \in InCallback :
      /\ DOMAIN tpass[t] = PinSet
      /\ \A p \in PinSet : Snapshot(t)[p].value = tpass[t][p]

\* C6: the list a get_all_states call returns is the values of one completed
\* pass, the most recent one at some moment of the call (all 0 before any).
C6_PullConsistent ==
    [][ \A c \in Callers :
          (cpc[c] = "gas95" /\ cpc'[c] = "ret104")
          => cacc'[c] \in {StatesOf(f) : f \in cseen[c]} ]_vars

\* C7: a failing read of a pin never ends the loop.
C7_ReadFailureAbsorbed == \A t \in Threads : tpc[t] # "crashed"

\* C8: every cached value, and every value reported in a list or a snapshot, is 0 or 1.
C8_Normalized ==
    /\ \A p \in DOMAIN last_values : last_values[p] \in {0, 1}
    /\ \A c \in Callers : \A k \in DOMAIN cacc[c] : cacc[c][k].value \in {0, 1}
    /\ \A t \in Threads : \A k \in DOMAIN tacc[t] : tacc[t][k].value \in {0, 1}

\* C9 as written: without GPIO, once a start() has returned the callback is
\* entered, again and again, for as long as no stop() is called.
C9_DegradedStream ==
    []((~hw /\ \E c \in Callers : cpc[c] = "ret68") => <>(InCallback # {} \/ stop))
\* C9 amended: without GPIO start() starts nothing: no pass is ever begun, the
\* callback is never entered and the cache stays empty, whatever is called.
C9_DegradedSilent ==
    ~hw => /\ InCallback = {}
           /\ nticks = 0
           /\ last_values = EmptyMap
C9_Witness ==
    /\ ~hw /\ Len(pins) = 2
    /\ cpc["c1"] = "ret68" /\ ncalls = MaxCalls

\* C10: with GPIO, a get_all_states call during which no pass is in progress,
\* after a pass has completed, returns for every configured pin, in order, the
\* value of the last completed pass with the pin's label.
C10_PullAfterTick ==
    [][ \A c \in Callers :
          (hw /\ cpc[c] = "gas95" /\ cpc'[c] = "ret104" /\ cquiet[c] /\ DOMAIN lastTick = PinSet)
          => cacc'[c] = StatesOf(lastTick) ]_vars

\* C11: with GPIO, a stop() call that has set the event goes on without raising,
\* through the join if there is one, and returns having called GPIO.cleanup().
C11_StopReleases ==
    [][ \A c \in Callers :
          (hw /\ cpc[c] \in {"stop83", "stop84", "stop85"} /\ cpc'[c] # cpc[c])
          => /\ cpc'[c] \in {"stop84", "stop85", "ret86"}
             /\ cpc'[c] = "ret86" => (~gpioMode' /\ gpioSetup' = {}) ]_vars

\* C12: there is never more than one live loop.
C12_SingleLoop == Cardinality(LiveThreads) <= 1

\* C13: while the stop event stays set, a loop enters the callback at most
\* once more, begins no pass once it has tested the event, and, when the
\* callback returns and the sleep elapses, ends.
C13_BoundedCancel ==
    /\ [][ \A t \in Threads :
             /\ (stop /\ tpc[t] # "callback" /\ tpc'[t] = "callback") => ~tlate[t]
             /\ ~(stop /\ tpc[t] # "read" /\ tpc'[t] = "read") ]_vars
    /\ \A t \in Threads : [](stop /\ IsAlive(t) => <>(~stop \/ ~IsAlive(t)))
C13_Witness ==
    /\ hw /\ Len(pins) = 2 /\ stop
    /\ \E t \in Threads : tpc[t] = "sleep" /\ tlate[t]

\* C14: with GPIO, when a start() call returns, at line 71 or at line 79, a
\* loop is alive and the stop event is clear.
C14_StartLeavesRunning ==
    [][ \A c \in Callers :
          (hw /\ cpc[c] \in {"start70", "start79"} /\ cpc'[c] \in {"ret71", "ret79"})
          => (LiveThreads' # {} /\ ~stop') ]_vars

\* C15: with GPIO, the start() call that creates a loop has, before it creates
\* it, called GPIO.setmode and GPIO.setup for every configured pin: every loop,
\* and so every loop that reads a pin, was created after that initialisation.
C15_InitBeforeSampling ==
    \A t \in Threads :
      tpc[t] # "none" => (hw /\ tsetup[t].mode /\ tsetup[t].pins = PinSet)
C15_Witness ==
    /\ hw /\ Len(pins) = 2
    /\ \E t \in Threads : tpc[t] = "read" /\ ti[t] = 1 /\ pins[1] \in DOMAIN last_values

\* C16: at most one callback invocation is in progress at any time, no pin is
\* read while a callback is in progress, and a loop enters the callback only
\* after a pass that read every configured pin.
C16_SequentialDelivery ==
    /\ Cardinality(InCallback) <= 1
    /\ InCallback # {} => \A t \in Threads : tpc[t] # "read"
    /\ \A t \in InCallback : DOMAIN tpass[t] = PinSet

\* C17: only a loop's read of a pin changes the cache: no step of start(),
\* stop() or get_all_states() changes it (get_all_states adds no entry for an
\* unread pin), and no step of get_all_states() changes the stop event or the
\* thread handle.
C17_CacheFrame ==
    [][ /\ last_values' # last_values
           => \E t \in Threads : tpc[t] = "read" /\ (tpc'[t] # tpc[t] \/ ti'[t] # ti[t])
        /\ \A c \in Callers :
             (cpc'[c] # cpc[c] \/ ci'[c] # ci[c]) => last_values' = last_values
        /\ \A c \in Callers :
             ((cpc[c] = "gas95" \/ cpc'[c] = "gas95") /\ (cpc'[c] # cpc[c] \/ ci'[c] # ci[c]))
             => (stop' = stop /\ thread' = thread) ]_vars
C17_Witness ==
    /\ hw /\ Len(pins) = 2
    /\ cpc["c1"] = "ret104" /\ cpc["c2"] = "ret86"
    /\ Cardinality(DOMAIN last_values) = 1

\* C18: whenever a loop calls GPIO.input for a pin, the numbering mode is set
\* and the pin is set up as an input: no read falls between a GPIO.cleanup()
\* and the next set-up of the pin.
C18_NoReadAfterCleanup ==
    [][ \A t \in Threads :
          (tpc[t] = "read" /\ ti[t] < Len(pins) /\ (tpc'[t] # tpc[t] \/ ti'[t] # ti[t]))
          => (gpioMode /\ pins[ti[t] + 1] \in gpioSetup) ]_vars

\* C19: once a stop() call has returned, and as long as no start() has been
\* called since (the caller has begun no other call and the other context has
\* called no start() at all), the cache is not written and the callback is
\* not entered.
C19_QuietAfterStop ==
    [][ (cpc["c1"] = "ret86" /\ OneStarter)
        => (last_values' = last_values /\ InCallback' \subseteq InCallback) ]_vars

====
